---- MODULE Spec2Model ----
(***************************************************************************)
(* League match-ingestion pipeline (src/src/main.py): static-data load,   *)
(* patch cleanup, tiered player-pool resolution, per-player crawl of the   *)
(* match history into the matches collection, and the analyst phase that   *)
(* writes the frontend artifact.                                           *)
(*                                                                         *)
(* Strings that the code parses (game versions, patches) are sequences of  *)
(* one-character strings, so that split / prefix-regex / comparison are    *)
(* computed as the code computes them.                                     *)
(***************************************************************************)
EXTENDS Integers, Sequences, FiniteSets, TLC

(***************************************************************************)
(* Bounds of the model.                                                    *)
(***************************************************************************)
\* PLAYER_COUNT is read from the environment (default 10); a small pool.
PLAYER_COUNT == 2
\* how many 429 responses the upstream gives to one call before it answers
MaxThrottle == 1
\* how many times the script is run against the same collection
MaxRuns == 2

(***************************************************************************)
(* Values.                                                                 *)
(***************************************************************************)
\* Python None where a string is expected
NoneStr == <<"None">>
\* a local name that was never assigned (reading it raises UnboundLocalError)
Unbound == <<"Unbound">>

V_14_2_1 == <<"1", "4", ".", "2", ".", "1">>
V_14_20_1 == <<"1", "4", ".", "2", "0", ".", "1">>
P_14_1 == <<"1", "4", ".", "1">>
P_0_0 == <<"0", ".", "0">>

\* what versions.json[0] can be when the feed answers
FeedVersions == {V_14_2_1, V_14_20_1}
\* what info.gameVersion of a match detail can be
DetailVersions == {V_14_2_1, V_14_20_1, NoneStr}

REGIONS == <<"kr", "euw1">>

Procs == {1, 2}

\* Retry-After header of a 429 response: absent, or a number of seconds
NoHeader == -1
RetryAfterValues == {NoHeader, 3}

(***************************************************************************)
(* String helpers.                                                         *)
(***************************************************************************)
\* truthiness of an optional string: None and "" are false
Truthy(s) == s # NoneStr /\ s # <<>>

\* index of the first sep in s at or after position i, or 0
RECURSIVE FindFrom(_, _, _)
FindFrom(s, sep, i) ==
    IF i > Len(s) THEN 0
    ELSE IF s[i] = sep THEN i
    ELSE FindFrom(s, sep, i + 1)

\* str.split(sep): the list of the pieces between the separators
RECURSIVE Split(_, _)
Split(s, sep) ==
    LET k == FindFrom(s, sep, 1) IN
    IF k = 0 THEN <<s>>
    ELSE <<SubSeq(s, 1, k - 1)>> \o Split(SubSeq(s, k + 1, Len(s)), sep)

get_short_version(game_version) ==
    IF ~Truthy(game_version) THEN P_0_0
    ELSE LET parts == Split(game_version, ".") IN
         IF Len(parts) >= 2 THEN parts[1] \o <<".">> \o parts[2] ELSE parts[1]

\* {"$regex": "^<pat>"} on a field value: an anchored search, "." matches any
\* character; a value that is not a string never matches
RegexPrefixMatch(pat, value) ==
    /\ value # NoneStr
    /\ Len(value) >= Len(pat)
    /\ \A i \in 1..Len(pat) : pat[i] = "." \/ pat[i] = value[i]


(***************************************************************************)
(* Upstream data.                                                          *)
(***************************************************************************)
MATCH_HISTORY_COUNT == 100

Puuids == {"pA", "pB"}
MatchIds == {"m1", "m2"}

\* ladder entries: a key that the entry does not carry is ""
NoLP == -1
eP == [puuid |-> "pA", summonerId |-> "", leaguePoints |-> 2]
eS == [puuid |-> "", summonerId |-> "sB", leaguePoints |-> 1]
eN == [puuid |-> "", summonerId |-> "", leaguePoints |-> 3]
LadderLists == {<<>>, <<eS>>, <<eP>>, <<eS, eP>>, <<eN, eP>>}
MatchLists == {<<>>, <<"m1">>, <<"m2", "m1">>, <<"m2", "m2">>}

\* the players of a match, as the upstream reports them
Participants(mid) == IF mid = "m1" THEN {"pA"} ELSE {"pB", "pC"}

NotFound == [kind |-> "404", val |-> <<>>]
Ok(v) == [kind |-> "ok", val |-> v]

LadderResponses == {NotFound} \cup {Ok(l) : l \in LadderLists}
\* the account behind the i-th curated handle of a region
ProPuuid(i) == IF i = 1 THEN "pA" ELSE IF i = 2 THEN "pB" ELSE "pC"
AccountResponses(i) == {NotFound, Ok(ProPuuid(i))}
SummonerResponses == {NotFound} \cup {Ok(x) : x \in Puuids}
MatchlistResponses == {NotFound} \cup {Ok(l) : l \in MatchLists}
DetailResponses(mid) ==
    {NotFound} \cup
    {Ok([matchId |-> mid, gameVersion |-> v, puuids |-> Participants(mid)]) :
        v \in DetailVersions}

VARIABLES
    run,          \* per process: the locals of the script run (module globals + fetch_data)
    matches_col,  \* the documents of db["matches"], in insertion order
    ev,           \* per process: what its last step did (response, log line, sleep)
    world,        \* fixed upstream answers per call, or <<>> when the upstream is free
    agg,          \* per execution of PHASE 2: the corpus it reads and what it has built
    fn            \* one call of a helper function: its arguments and what it returned

vars == <<run, matches_col, ev, world, agg, fn>>

\* no helper call and no PHASE 2 pass is being looked at
NoCall == [f |-> "none", arg |-> <<>>, ret |-> <<>>, returned |-> FALSE]
NoAgg == <<>>

(***************************************************************************)
(* The matches collection.                                                 *)
(***************************************************************************)
SeqToSet(q) == {q[i] : i \in DOMAIN q}

\* the index and the lookup keyed on a path no document carries
StoredIds_wrong_path(col) == {}

\* the values of "metadata.matchId" over the collection
StoredIds(col) == {col[i].matchId : i \in DOMAIN col}

\* insert_one without the unique index on metadata.matchId
insert_one_no_index(col, doc) == [ok |-> TRUE, col |-> Append(col, doc)]

\* insert_one under create_index("metadata.matchId", unique=True):
\* a second document with the same matchId raises DuplicateKeyError
insert_one(col, doc) ==
    IF doc.matchId \in StoredIds(col)
    THEN [ok |-> FALSE, col |-> col]
    ELSE [ok |-> TRUE, col |-> Append(col, doc)]

\* delete_many({"info.gameVersion": {"$not": {"$regex": "^<target_patch>"}}})
delete_many_not_regex(col, target_patch) ==
    SelectSeq(col, LAMBDA d : RegexPrefixMatch(target_patch, d.gameVersion))

\* find({"metadata.matchId": {"$in": match_ids}}) -> the set of ids found
existing_ids_of(col, match_ids) == StoredIds(col) \cap SeqToSet(match_ids)

\* new_matches without the filter on existing_ids
new_matches_all(match_ids, existing_ids) == match_ids

\* [mid for mid in match_ids if mid not in existing_ids]
new_matches_of(match_ids, existing_ids) ==
    SelectSeq(match_ids, LAMBDA mid : mid \notin existing_ids)

slim_match(match_detail, region_code) ==
    [matchId |-> match_detail.matchId,
     region |-> region_code,
     gameVersion |-> match_detail.gameVersion,
     puuids |-> match_detail.puuids]

\* the $group stage of the fallback pipeline: the distinct participant puuids
\* of the region's stored matches
DbPuuids(col, region_code) ==
    UNION {col[i].puuids : i \in {j \in DOMAIN col : col[j].region = region_code}}

\* every order in which k distinct members of S can come out of the pipeline
InjSeqs(S, k) ==
    {q \in [1..k -> S] : \A i, j \in 1..k : i # j => q[i] # q[j]}

Min(a, b) == IF a < b THEN a ELSE b

Take(q, n) == SubSeq(q, 1, Min(n, Len(q)))


(***************************************************************************)
(* Locals of one run of the script.                                        *)
(***************************************************************************)
NoArtifact ==
    [written |-> FALSE, current_patch |-> <<>>, ddragon_version |-> <<>>,
     total_games |-> 0, patches |-> {}]

InitRun ==
    [pc |-> "idle", runs |-> 0,
     latest_ver |-> NoneStr, target_patch |-> Unbound,
     ri |-> 0, entries |-> <<>>, fallback_puuids |-> <<>>, ni |-> 0,
     ei |-> 0, puuid |-> "", match_ids |-> <<>>, existing_ids |-> {},
     new_matches |-> <<>>, mi |-> 0, fetched |-> {}, asked |-> {},
     new |-> 0, throttled |-> 0, artifact |-> NoArtifact]

NoEvent ==
    [site |-> "none", resp |-> "none", hdr |-> NoHeader, slept |-> 0,
     log |-> "none", call |-> <<>>, ri |-> 0, ei |-> 0, n |-> 0, mi |-> 0,
     nm |-> 0, new |-> 0, insert |-> "none", feed |-> FALSE, more |-> FALSE,
     scan_end |-> FALSE, listed |-> <<>>, existing |-> {}, fetched |-> {}]

LadderSites == {"challenger", "grandmaster", "master"}
PlayerSites == {"summoner", "matchlist", "detail"}
CallSites == LadderSites \cup {"account"} \cup PlayerSites

Region(s) == REGIONS[s.ri]

\* FALLBACK_PRO_PLAYERS: 24 handles per region, all of the form name#tag
NumProNames == 24
pro_names_of(s) == Take([i \in 1..NumProNames |-> i], PLAYER_COUNT)

\* the upstream call a process is waiting on: (operation, arguments)
Call(s) ==
    CASE s.pc = "challenger" -> <<"league.challenger_by_queue", Region(s), "RANKED_SOLO_5x5">>
      [] s.pc = "grandmaster" -> <<"league.grandmaster_by_queue", Region(s), "RANKED_SOLO_5x5">>
      [] s.pc = "master" -> <<"league.masters_by_queue", Region(s), "RANKED_SOLO_5x5">>
      [] s.pc = "account" ->
            <<"account.by_riot_id", IF Region(s) = "kr" THEN "asia" ELSE "europe",
              Region(s), pro_names_of(s)[s.ni]>>
      [] s.pc = "summoner" -> <<"summoner.by_id", Region(s), s.entries[s.ei].summonerId>>
      [] s.pc = "matchlist" ->
            <<"match.matchlist_by_puuid", Region(s), s.puuid, MATCH_HISTORY_COUNT>>
      [] s.pc = "detail" -> <<"match.by_id", Region(s), s.new_matches[s.mi]>>
      [] OTHER -> <<>>

\* what the last step of a process did, over the state it started from
Event(s, resp) ==
    [NoEvent EXCEPT !.site = s.pc, !.resp = resp, !.call = Call(s),
                    !.ri = s.ri, !.ei = s.ei, !.n = Len(s.entries),
                    !.mi = s.mi, !.nm = Len(s.new_matches), !.new = s.new,
                    !.feed = Truthy(s.latest_ver),
                    !.more = \E j \in (s.ei + 1)..Len(s.entries) :
                                s.entries[j].puuid # "" \/ s.entries[j].summonerId # ""]

\* a fixed upstream answers a call the way `world` says; a free one anyhow
Allowed(s, r) ==
    Call(s) \in DOMAIN world =>
        /\ world[Call(s)].kind = r.kind
        /\ r.kind = "ok" => world[Call(s)].val = r.val

(***************************************************************************)
(* Control flow of fetch_data between two upstream calls.                  *)
(***************************************************************************)
ScanReset(s) ==
    [s EXCEPT !.puuid = "", !.match_ids = <<>>, !.existing_ids = {},
              !.new_matches = <<>>, !.mi = 0, !.fetched = {}, !.throttled = 0]

\* for region_code, region_name in REGIONS: ... ; after the last one, PHASE 2
StartRegion(s, r) ==
    LET c == [ScanReset(s) EXCEPT !.entries = <<>>, !.fallback_puuids = <<>>,
                                  !.ni = 0, !.ei = 0]
    IN IF r > Len(REGIONS)
       THEN [c EXCEPT !.pc = "analyst", !.ri = 0]
       ELSE [c EXCEPT !.pc = "challenger", !.ri = r]

\* for i, entry in enumerate(entries): resolve the puuid, or skip the entry
RECURSIVE StartPlayer(_, _)
StartPlayer(s, i) ==
    IF i > Len(s.entries) THEN StartRegion(s, s.ri + 1)
    ELSE LET e == s.entries[i] IN
         IF e.puuid # ""
         THEN [ScanReset(s) EXCEPT !.ei = i, !.puuid = e.puuid, !.pc = "matchlist"]
         ELSE IF e.summonerId # ""
         THEN [ScanReset(s) EXCEPT !.ei = i, !.pc = "summoner"]
         ELSE StartPlayer(s, i + 1)

\* x.get("leaguePoints", 0)
LPKey(e) == IF e.leaguePoints = NoLP THEN 0 ELSE e.leaguePoints

\* sorted(entries, key=leaguePoints, reverse=True): stable, highest first
RECURSIVE InsertByLP(_, _)
InsertByLP(sorted, e) ==
    IF sorted = <<>> THEN <<e>>
    ELSE IF LPKey(Head(sorted)) >= LPKey(e)
         THEN <<Head(sorted)>> \o InsertByLP(Tail(sorted), e)
         ELSE <<e>> \o sorted

RECURSIVE SortByLP(_)
SortByLP(es) ==
    IF es = <<>> THEN <<>>
    ELSE InsertByLP(SortByLP(SubSeq(es, 1, Len(es) - 1)), es[Len(es)])

\* sort by LP, take the top PLAYER_COUNT, start the player loop
AfterTiers(s) ==
    StartPlayer([s EXCEPT !.entries = Take(SortByLP(s.entries), PLAYER_COUNT),
                          !.fallback_puuids = <<>>, !.ni = 0, !.throttled = 0], 1)

\* entries.extend([{"puuid": puuid} for puuid in fallback_puuids[:PLAYER_COUNT]])
FinishFallback(s) ==
    AfterTiers([s EXCEPT !.entries =
        s.entries \o [i \in 1..Min(PLAYER_COUNT, Len(s.fallback_puuids)) |->
                        [puuid |-> s.fallback_puuids[i], summonerId |-> "",
                         leaguePoints |-> NoLP]]])

\* for riot_id in pro_names: the next handle, or the end of the loop
NextName(s) ==
    IF s.ni < Len(pro_names_of(s))
    THEN [s EXCEPT !.ni = s.ni + 1, !.throttled = 0]
    ELSE FinishFallback(s)

\* the end of one player's scan (normally, by continue, or by an exception)
EndScan(s, e, log) ==
    [s |-> StartPlayer(s, s.ei + 1),
     ev |-> [e EXCEPT !.log = log, !.scan_end = TRUE, !.listed = s.match_ids,
                      !.existing = s.existing_ids, !.fetched = s.fetched]]

\* for match_id in new_matches: the next identifier, or "Player scanned."
NextMatch(s, e) ==
    IF s.mi < Len(s.new_matches)
    THEN [s |-> [s EXCEPT !.mi = s.mi + 1, !.throttled = 0], ev |-> e]
    ELSE EndScan(s, e, "none")


(***************************************************************************)
(* smart_request and the except clauses that catch what it raises.         *)
(***************************************************************************)
\* time.sleep(int(headers.get("Retry-After", 10)))
RetrySleep_no_margin(hdr) == IF hdr = NoHeader THEN 10 ELSE hdr

\* time.sleep(int(headers.get("Retry-After", 10)) + 1)
RetrySleep(hdr) == (IF hdr = NoHeader THEN 10 ELSE hdr) + 1

\* the player loop without its own try/except: the region's clause catches
on_error_region_scope(s, e) ==
    IF s.pc = "account"
    THEN [s |-> NextName(s), ev |-> [e EXCEPT !.log = "warning"]]
    ELSE [s |-> StartRegion(s, s.ri + 1), ev |-> [e EXCEPT !.log = "region"]]

\* the except clause that catches an exception raised at the current site:
\* "Region error" for the ladder calls, the warning of the pro-player loop
\* for the account lookup, "Player error" inside the player loop
on_error(s, e) ==
    IF s.pc \in LadderSites
    THEN [s |-> StartRegion(s, s.ri + 1), ev |-> [e EXCEPT !.log = "region"]]
    ELSE IF s.pc = "account"
    THEN [s |-> NextName(s), ev |-> [e EXCEPT !.log = "warning"]]
    ELSE EndScan(s, e, "player")

Apply(p, res, col) ==
    /\ run' = [run EXCEPT ![p] = res.s]
    /\ ev' = [ev EXCEPT ![p] = res.ev]
    /\ matches_col' = col
    /\ UNCHANGED <<world, agg, fn>>

\* the detail of new_matches[mi] has been asked for
Asked(s) ==
    IF s.pc = "detail"
    THEN [s EXCEPT !.fetched = s.fetched \cup {s.new_matches[s.mi]}]
    ELSE s

\* smart_request(match.by_id) has returned or raised: the run has spent one
\* detail request on new_matches[mi]
Answered(s) ==
    IF s.pc = "detail"
    THEN [Asked(s) EXCEPT !.asked = s.asked \cup {<<Region(s), s.new_matches[s.mi]>>}]
    ELSE s

\* 429: sleep Retry-After + 1 and call again
RateLimited(p) ==
    LET s == run[p] IN
    /\ s.pc \in CallSites
    /\ s.throttled < MaxThrottle
    /\ \E hdr \in RetryAfterValues :
        Apply(p, [s |-> [Asked(s) EXCEPT !.throttled = s.throttled + 1],
                  ev |-> [Event(s, "429") EXCEPT !.hdr = hdr,
                                                  !.slept = RetrySleep(hdr)]],
              matches_col)

\* any other ApiError, or any other exception of the call: raise e
Fault(p) ==
    LET s == run[p] IN
    /\ s.pc \in CallSites
    /\ Allowed(s, [kind |-> "fault", val |-> <<>>])
    /\ Apply(p, on_error(Answered(s), Event(s, "fault")), matches_col)

(***************************************************************************)
(* Section 4 (static data) and fetch_data.                                 *)
(***************************************************************************)
\* versions.json: latest_ver is set when the feed answers, else left undefined
StaticData(p) ==
    LET s == run[p] IN
    /\ s.pc = "static"
    /\ s.runs < MaxRuns
    /\ \E v \in FeedVersions \cup {NoneStr} :
        Apply(p, [s |-> [s EXCEPT !.pc = "cleanup", !.latest_ver = v,
                                  !.runs = s.runs + 1],
                  ev |-> [NoEvent EXCEPT !.site = "static"]],
              matches_col)

\* DB CLEANUP PHASE, then stats = {"new": 0} and the first region
Cleanup(p) ==
    LET s == run[p]
        target_patch == get_short_version(s.latest_ver)
    IN
    /\ s.pc = "cleanup"
    /\ IF Truthy(s.latest_ver)
       THEN Apply(p, [s |-> StartRegion([s EXCEPT !.target_patch = target_patch,
                                                  !.new = 0], 1),
                      ev |-> [Event(s, "none") EXCEPT !.feed = TRUE]],
                  delete_many_not_regex(matches_col, target_patch))
       ELSE Apply(p, [s |-> StartRegion([s EXCEPT !.new = 0], 1),
                      ev |-> Event(s, "none")],
                  matches_col)

\* challenger = smart_request(challenger_by_queue); try Grandmaster if short
ChallengerResp(p) ==
    LET s == run[p] IN
    /\ s.pc = "challenger"
    /\ \E r \in LadderResponses :
        /\ Allowed(s, r)
        /\ LET entries == IF r.kind = "ok" THEN r.val ELSE <<>>
               s1 == [s EXCEPT !.entries = entries, !.throttled = 0]
           IN Apply(p, [s |-> IF Len(entries) < PLAYER_COUNT
                              THEN [s1 EXCEPT !.pc = "grandmaster"]
                              ELSE AfterTiers(s1),
                        ev |-> Event(s, r.kind)],
                    matches_col)

\* grandmaster entries appended; try Master if still short
GrandmasterResp(p) ==
    LET s == run[p] IN
    /\ s.pc = "grandmaster"
    /\ \E r \in LadderResponses :
        /\ Allowed(s, r)
        /\ LET entries == IF r.kind = "ok" THEN s.entries \o r.val ELSE s.entries
               s1 == [s EXCEPT !.entries = entries, !.throttled = 0]
           IN Apply(p, [s |-> IF Len(entries) < PLAYER_COUNT
                              THEN [s1 EXCEPT !.pc = "master"]
                              ELSE AfterTiers(s1),
                        ev |-> Event(s, r.kind)],
                    matches_col)

\* master entries appended; if still short, the puuids of the stored matches
\* and, if those are short too, the pro-player handles
MasterResp(p) ==
    LET s == run[p] IN
    /\ s.pc = "master"
    /\ \E r \in LadderResponses :
        /\ Allowed(s, r)
        /\ LET entries == IF r.kind = "ok" THEN s.entries \o r.val ELSE s.entries
               s1 == [s EXCEPT !.entries = entries, !.throttled = 0]
               db == DbPuuids(matches_col, Region(s))
           IN IF Len(entries) < PLAYER_COUNT
              THEN \E fb \in InjSeqs(db, Min(PLAYER_COUNT, Cardinality(db))) :
                    LET s2 == [s1 EXCEPT !.fallback_puuids = fb] IN
                    Apply(p, [s |-> IF Len(fb) < PLAYER_COUNT /\ pro_names_of(s) # <<>>
                                    THEN [s2 EXCEPT !.pc = "account", !.ni = 1]
                                    ELSE FinishFallback(s2),
                              ev |-> Event(s, r.kind)],
                          matches_col)
              ELSE Apply(p, [s |-> AfterTiers(s1), ev |-> Event(s, r.kind)],
                         matches_col)

\* account = smart_request(account.by_riot_id); append its puuid if found
AccountResp(p) ==
    LET s == run[p] IN
    /\ s.pc = "account"
    /\ \E r \in AccountResponses(pro_names_of(s)[s.ni]) :
        /\ Allowed(s, r)
        /\ Apply(p, [s |-> NextName(IF r.kind = "ok"
                                    THEN [s EXCEPT !.fallback_puuids = Append(@, r.val)]
                                    ELSE s),
                     ev |-> Event(s, r.kind)],
                 matches_col)

\* puuid = smart_request(summoner.by_id, ...)["puuid"]: None["puuid"] raises
SummonerResp(p) ==
    LET s == run[p] IN
    /\ s.pc = "summoner"
    /\ \E r \in SummonerResponses :
        /\ Allowed(s, r)
        /\ Apply(p, IF r.kind = "ok"
                    THEN [s |-> [s EXCEPT !.puuid = r.val, !.pc = "matchlist",
                                          !.throttled = 0],
                          ev |-> Event(s, r.kind)]
                    ELSE on_error(s, Event(s, r.kind)),
                 matches_col)

\* match_ids; the batched existence lookup; new_matches
MatchlistResp(p) ==
    LET s == run[p] IN
    /\ s.pc = "matchlist"
    /\ \E r \in MatchlistResponses :
        /\ Allowed(s, r)
        /\ LET match_ids == IF r.kind = "ok" THEN r.val ELSE <<>>
               existing_ids == existing_ids_of(matches_col, match_ids)
               new_matches == new_matches_of(match_ids, existing_ids)
               s1 == [s EXCEPT !.match_ids = match_ids,
                               !.existing_ids = existing_ids,
                               !.new_matches = new_matches, !.throttled = 0]
           IN Apply(p, IF match_ids = <<>> \/ new_matches = <<>>
                       THEN EndScan(s1, Event(s, r.kind), "none")
                       ELSE [s |-> [s1 EXCEPT !.pc = "detail", !.mi = 1],
                             ev |-> Event(s, r.kind)],
                    matches_col)

\* match_detail = smart_request(match.by_id); patch filter; slim; insert_one
DetailResp(p) ==
    LET s == run[p] IN
    /\ s.pc = "detail"
    /\ \E r \in DetailResponses(s.new_matches[s.mi]) :
        /\ Allowed(s, r)
        /\ LET s1 == Answered(s)
               e == Event(s, r.kind)
           IN IF r.kind # "ok"
              THEN Apply(p, NextMatch(s1, e), matches_col)
              ELSE LET match_ver == get_short_version(r.val.gameVersion)
                       ins == insert_one(matches_col, slim_match(r.val, Region(s)))
                   IN IF s.target_patch = Unbound
                      THEN Apply(p, on_error(s1, e), matches_col)
                      ELSE IF Truthy(s.target_patch) /\ match_ver # s.target_patch
                      THEN Apply(p, NextMatch(s1, e), matches_col)
                      ELSE IF ins.ok
                      THEN Apply(p, NextMatch([s1 EXCEPT !.new = s.new + 1],
                                              [e EXCEPT !.insert = "ok"]),
                                 ins.col)
                      ELSE Apply(p, NextMatch(s1, [e EXCEPT !.insert = "dup"]),
                                 ins.col)

V_14_23_1 == <<"1", "4", ".", "2", "3", ".", "1">>

\* PHASE 2: the meta block of the frontend JSON and the matches it is built from
Analyst(p) ==
    LET s == run[p] IN
    /\ s.pc = "analyst"
    /\ Apply(p, [s |-> [s EXCEPT !.pc = "done", !.artifact =
                    [written |-> TRUE,
                     current_patch |-> IF Truthy(s.latest_ver) THEN s.target_patch
                                       ELSE P_14_1,
                     ddragon_version |-> IF Truthy(s.latest_ver) THEN s.latest_ver
                                         ELSE V_14_23_1,
                     total_games |-> Len(matches_col),
                     patches |-> {get_short_version(matches_col[i].gameVersion) :
                                    i \in DOMAIN matches_col}]],
                 ev |-> Event(s, "none")],
             matches_col)

\* the script is started again later, against the same collection
Restart(p) ==
    LET s == run[p] IN
    /\ s.pc = "done"
    /\ s.runs < MaxRuns
    /\ Apply(p, [s |-> [InitRun EXCEPT !.pc = "static", !.runs = s.runs],
                 ev |-> NoEvent],
             matches_col)

Init ==
    /\ run = [p \in Procs |-> IF p = 1 THEN [InitRun EXCEPT !.pc = "static"] ELSE InitRun]
    /\ matches_col = <<>>
    /\ ev = [p \in Procs |-> NoEvent]
    /\ world = <<>>
    /\ agg = NoAgg
    /\ fn = NoCall

\* one step of a run that has been started
Step(p) ==
    \/ StaticData(p)
    \/ Cleanup(p)
    \/ RateLimited(p)
    \/ Fault(p)
    \/ ChallengerResp(p)
    \/ GrandmasterResp(p)
    \/ MasterResp(p)
    \/ AccountResp(p)
    \/ SummonerResp(p)
    \/ MatchlistResp(p)
    \/ DetailResp(p)
    \/ Analyst(p)

Next == \E p \in Procs : Step(p) \/ Restart(p)

Spec == Init /\ [][Next]_vars

(***************************************************************************)
(* One run, which the interpreter keeps executing until it returns: every  *)
(* upstream call is answered, and is throttled finitely often.             *)
(***************************************************************************)
InitLastRun ==
    /\ run = [p \in Procs |->
                IF p = 1 THEN [InitRun EXCEPT !.pc = "static", !.runs = MaxRuns - 1]
                ELSE InitRun]
    /\ matches_col = <<>>
    /\ ev = [p \in Procs |-> NoEvent]
    /\ world = <<>>
    /\ agg = NoAgg
    /\ fn = NoCall

NextRun == \E p \in Procs : Step(p)

FairSpec == InitLastRun /\ [][NextRun]_vars /\ WF_vars(NextRun)

(***************************************************************************)
(* Two runs of the script crawling at the same time against one            *)
(* collection: each is in its player loop, over some pool.                 *)
(***************************************************************************)
\* the steps of the player loop
ScanStep(p) ==
    /\ run[p].pc \in PlayerSites
    /\ \/ RateLimited(p)
       \/ Fault(p)
       \/ SummonerResp(p)
       \/ MatchlistResp(p)
       \/ DetailResp(p)

\* a run in region 1 whose feed answered v, entering the player loop over es
Crawling(v, es) ==
    StartPlayer([InitRun EXCEPT !.runs = 1, !.latest_ver = v,
                                !.target_patch = IF Truthy(v) THEN get_short_version(v)
                                                 ELSE Unbound,
                                !.ri = 1, !.entries = es], 1)

RacePools == {<<eP>>, <<eS, eP>>}

InitRace ==
    /\ \E v1, v2 \in FeedVersions \cup {NoneStr} : \E es1 \in RacePools :
        run = [p \in Procs |-> IF p = 1 THEN Crawling(v1, es1) ELSE Crawling(v2, <<eP>>)]
    /\ matches_col = <<>>
    /\ ev = [p \in Procs |-> NoEvent]
    /\ world = <<>>
    /\ agg = NoAgg
    /\ fn = NoCall

NextRace == \E p \in Procs : ScanStep(p)

SpecRace == InitRace /\ [][NextRace]_vars

(***************************************************************************)
(* One run that scans the same player twice in a row, against an upstream  *)
(* whose answers are fixed.                                                *)
(***************************************************************************)
FaultResp == [kind |-> "fault", val |-> <<>>]

\* a collection left by earlier runs, as the cleanup of this run leaves it
StoredDoc(mid, v) ==
    [matchId |-> mid, region |-> "kr", gameVersion |-> v, puuids |-> Participants(mid)]

EarlierStores ==
    {<<>>} \cup {<<StoredDoc(mid, v)>> : mid \in MatchIds, v \in FeedVersions}

InitIdem ==
    /\ \E v \in FeedVersions \cup {NoneStr} :
        /\ run = [p \in Procs |-> IF p = 1 THEN Crawling(v, <<eP, eP>>) ELSE InitRun]
        /\ \E col \in EarlierStores :
            matches_col = IF Truthy(v)
                          THEN delete_many_not_regex(col, get_short_version(v))
                          ELSE col
    /\ ev = [p \in Procs |-> NoEvent]
    /\ \E l \in MatchlistResponses \cup {FaultResp} :
       \E d1 \in DetailResponses("m1") \cup {FaultResp} :
       \E d2 \in DetailResponses("m2") \cup {FaultResp} :
            world = (<<"match.matchlist_by_puuid", "kr", "pA", MATCH_HISTORY_COUNT>> :> l)
                    @@ (<<"match.by_id", "kr", "m1">> :> d1)
                    @@ (<<"match.by_id", "kr", "m2">> :> d2)
    /\ agg = NoAgg
    /\ fn = NoCall

\* the player loop of the one run
IdemStep(p) ==
    /\ run[p].pc \in PlayerSites
    /\ \/ RateLimited(p)
       \/ Fault(p)
       \/ MatchlistResp(p)
       \/ DetailResp(p)

NextIdem == \E p \in Procs : IdemStep(p)

SpecIdem == InitIdem /\ [][NextIdem]_vars


(***************************************************************************)
(* get_latest_patch of the file-backed pipeline (src/main.py).             *)
(***************************************************************************)
Digits == <<"0", "1", "2", "3", "4", "5", "6", "7", "8", "9">>

IsDigits(q) == q # <<>> /\ \A i \in DOMAIN q : \E d \in DOMAIN Digits : Digits[d] = q[i]

DigitVal(c) == (CHOOSE d \in DOMAIN Digits : Digits[d] = c) - 1

\* int(str) of a string of decimal digits
RECURSIVE ParseInt(_)
ParseInt(q) ==
    IF q = <<>> THEN 0 ELSE 10 * ParseInt(SubSeq(q, 1, Len(q) - 1)) + DigitVal(q[Len(q)])

\* the minor component ranked as text instead of int(minor): "10" < "2" < "9"
version_key_lexical(v) ==
    LET parts == Split(v, ".") IN
    IF Len(parts) = 2 /\ IsDigits(parts[1]) /\ IsDigits(parts[2])
    THEN <<ParseInt(parts[1]),
           11 * DigitVal(parts[2][1]) +
              (IF Len(parts[2]) >= 2 THEN DigitVal(parts[2][2]) + 1 ELSE 0)>>
    ELSE <<0, 0>>

\* major, minor = v.split("."); (int(major), int(minor)); ValueError -> (0, 0)
version_key(v) ==
    LET parts == Split(v, ".") IN
    IF Len(parts) = 2 /\ IsDigits(parts[1]) /\ IsDigits(parts[2])
    THEN <<ParseInt(parts[1]), ParseInt(parts[2])>>
    ELSE <<0, 0>>

\* tuple comparison a <= b
KeyLeq(a, b) == a[1] < b[1] \/ (a[1] = b[1] /\ a[2] <= b[2])

\* max(all_patches, key=version_key), "14.1" for an empty set; the patches
\* are iterated as a set, so among equal keys any one can be returned:
\* the set of the values the call can return
get_latest_patch(all_patches) ==
    IF all_patches = {} THEN {P_14_1}
    ELSE {v \in all_patches :
            \A w \in all_patches : KeyLeq(version_key(w), version_key(v))}

StoredPatches(col) == {get_short_version(col[i].gameVersion) : i \in DOMAIN col}


(***************************************************************************)
(* The helper functions, called on their own.                              *)
(***************************************************************************)
\* an exception leaves the call
Raised == <<"raise">>

\* get_short_version of src/main.py: no guard; None has no split, and
\* parts[1] of a string without a dot is out of range
get_short_version_file(game_version) ==
    IF game_version = NoneStr THEN Raised
    ELSE LET parts == Split(game_version, ".") IN
         IF Len(parts) >= 2 THEN parts[1] \o <<".">> \o parts[2] ELSE Raised

\* sorted(list of int)
RECURSIVE InsertAsc(_, _)
InsertAsc(sorted, x) ==
    IF sorted = <<>> THEN <<x>>
    ELSE IF Head(sorted) <= x
         THEN <<Head(sorted)>> \o InsertAsc(Tail(sorted), x)
         ELSE <<x>> \o sorted

RECURSIVE SortAsc(_)
SortAsc(q) ==
    IF q = <<>> THEN <<>>
    ELSE InsertAsc(SortAsc(SubSeq(q, 1, Len(q) - 1)), q[Len(q)])

\* VALID_ITEMS is None when the item feed did not answer: no filter
NoFilter == {-1}

\* valid_player_items: the non-empty slots that hold a valid item
valid_player_items(items, VALID_ITEMS) ==
    SelectSeq(items, LAMBDA i : i # 0 /\ (VALID_ITEMS = NoFilter \/ i \in VALID_ITEMS))

\* no signature: fewer than two valid items
NoBuild == <<>>

\* the first three valid items as they sit in the slots, not sorted
build_signature_unsorted(items, VALID_ITEMS) ==
    LET valid == valid_player_items(items, VALID_ITEMS) IN
    IF Len(valid) >= 2 THEN Take(valid, 3) ELSE NoBuild

\* tuple(sorted(valid_player_items[:3])) when there are at least two
build_signature(items, VALID_ITEMS) ==
    LET valid == valid_player_items(items, VALID_ITEMS) IN
    IF Len(valid) >= 2 THEN SortAsc(Take(valid, 3)) ELSE NoBuild

\* length of the version strings the helpers are called on
MaxLen == 4
\* item slots of a participant (six in a match; fewer here)
MaxSlots == 4

Chars == {"1", "4", "."}
Strings(n) == UNION {[1..k -> Chars] : k \in 0..n}
VersionInputs == {NoneStr} \cup Strings(MaxLen) \cup {V_14_2_1, V_14_20_1}

P_14_2 == <<"1", "4", ".", "2">>
P_14_9 == <<"1", "4", ".", "9">>
P_14_10 == <<"1", "4", ".", "1", "0">>
P_13_24 == <<"1", "3", ".", "2", "4">>
P_junk == <<"1", "4", ".", "x">>
PatchInputs == SUBSET {P_14_1, P_14_2, P_14_9, P_14_10, P_13_24, P_0_0, P_junk, V_14_2_1}

ItemIds == {0, 10, 20, 30, 40}
ItemLists == [1..MaxSlots -> ItemIds]
ItemFilters == {NoFilter, {10, 20, 30}}

\* the slot lists that hold the items of p in another order
Reorderings(p) ==
    {[i \in DOMAIN p |-> p[pi[i]]] :
        pi \in {f \in [DOMAIN p -> DOMAIN p] : \A i, j \in DOMAIN p : i # j => f[i] # f[j]}}

InitFn ==
    /\ run = [p \in Procs |-> InitRun]
    /\ matches_col = <<>>
    /\ ev = [p \in Procs |-> NoEvent]
    /\ world = <<>>
    /\ agg = NoAgg
    /\ \/ \E v \in VersionInputs :
            \E f \in {"get_short_version", "get_short_version_file"} :
                fn = [NoCall EXCEPT !.f = f, !.arg = v]
       \/ \E all_patches \in PatchInputs :
            fn = [NoCall EXCEPT !.f = "get_latest_patch", !.arg = all_patches]
       \/ \E a \in ItemLists : \E b \in Reorderings(a) :
            \E VALID_ITEMS \in ItemFilters :
                fn = [NoCall EXCEPT !.f = "build_signature", !.arg = <<a, b, VALID_ITEMS>>]

Return(v) ==
    /\ ~fn.returned
    /\ fn' = [fn EXCEPT !.ret = v, !.returned = TRUE]
    /\ UNCHANGED <<run, matches_col, ev, world, agg>>

CallGetShortVersion ==
    /\ fn.f = "get_short_version"
    /\ Return(get_short_version(fn.arg))

CallGetShortVersionFile ==
    /\ fn.f = "get_short_version_file"
    /\ Return(get_short_version_file(fn.arg))

\* max() walks a set: among patches of equal key any one can be met first
CallGetLatestPatch ==
    /\ fn.f = "get_latest_patch"
    /\ \E latest \in get_latest_patch(fn.arg) : Return(latest)

\* two participants of one aggregation pass
CallBuildSignature ==
    /\ fn.f = "build_signature"
    /\ Return(<<build_signature(fn.arg[1], fn.arg[3]),
                build_signature(fn.arg[2], fn.arg[3])>>)

NextFn ==
    \/ CallGetShortVersion
    \/ CallGetShortVersionFile
    \/ CallGetLatestPatch
    \/ CallBuildSignature

SpecFn == InitFn /\ [][NextFn]_vars

(***************************************************************************)
(* PHASE 2 of fetch_data: the region loop that loads the stored matches    *)
(* and aggregates them per role.  The context tags and the leaderboard     *)
(* table are written on the side and are not read back by aggregate; they  *)
(* are left out.  A rate is kept as the integer number of its last decimal *)
(* (25.0 is 250, a kda of 5.00 is 500).  A loop over the matches of a      *)
(* region is evaluated by halves: the tally of the first half, then the    *)
(* tally of the second half added on top in the same order.                *)
(***************************************************************************)
VALID_ROLES == <<"TOP", "JUNGLE", "MIDDLE", "BOTTOM", "UTILITY">>

\* championId of a ban slot that was left empty
NoBan == -1

\* championName as the upstream gives it for a championId
ChampName(id) == <<"champion", id>>

RECURSIVE Flatten(_)
Flatten(qs) == IF qs = <<>> THEN <<>> ELSE Head(qs) \o Flatten(Tail(qs))

\* [b["championId"] for t in teams for b in t["bans"] if b["championId"] != -1]
extract_bans(info) == SelectSeq(Flatten(info.teams), LAMBDA b : b # NoBan)

\* the summary of one stored match that the region loop appends to region_matches
summary_of(m) ==
    [patch |-> get_short_version(m.gameVersion),
     bans |-> extract_bans(m),
     participants |->
        [i \in DOMAIN m.participants |->
            [role |-> m.participants[i].teamPosition,
             name |-> m.participants[i].riotId,
             champ |-> m.participants[i].championName,
             win |-> m.participants[i].win,
             k |-> m.participants[i].kills,
             d |-> m.participants[i].deaths,
             a |-> m.participants[i].assists,
             items |-> m.participants[i].items]]]

\* champ_id_to_name[p["championId"]] = p["championName"], for the participants
\* of one stored match in their order
RECURSIVE learn_participants(_, _, _)
learn_participants(champ_id_to_name, ps, j) ==
    IF j > Len(ps) THEN champ_id_to_name
    ELSE learn_participants((ps[j].championId :> ps[j].championName) @@ champ_id_to_name,
                            ps, j + 1)

\* the same over the matches lo..hi of one region: what the second half
\* writes stands over what the first half wrote
RECURSIVE learn_names(_, _, _)
learn_names(docs, lo, hi) ==
    IF lo > hi THEN <<>>
    ELSE IF lo = hi THEN learn_participants(<<>>, docs[lo].participants, 1)
    ELSE LET mid == (lo + hi) \div 2
         IN learn_names(docs, mid + 1, hi) @@ learn_names(docs, lo, mid)

\* next((x for x in m["participants"] if x["role"] == role_filter), None)
RolePlayerIndex(m, role_filter) ==
    LET hits == {i \in DOMAIN m.participants : m.participants[i].role = role_filter}
    IN IF hits = {} THEN 0 ELSE CHOOSE i \in hits : \A j \in hits : i <= j

\* stats is a dict in insertion order: a sequence of entries
NewStat(name) ==
    [name |-> name, g |-> 0, w |-> 0, k |-> 0, d |-> 0, a |-> 0, b |-> 0, builds |-> <<>>]

StatIndex(stats, name) ==
    LET hits == {i \in DOMAIN stats : stats[i].name = name}
    IN IF hits = {} THEN 0 ELSE CHOOSE i \in hits : TRUE

\* if c not in stats: stats[c] = {...}
WithStat(stats, name) ==
    IF StatIndex(stats, name) = 0 THEN Append(stats, NewStat(name)) ELSE stats

\* the tally a, and the tally b of the matches after it added on top: the
\* counters of a champion add up, a champion new in b comes after those of a
MergeStats(a, b) ==
    [i \in DOMAIN a |->
        IF StatIndex(b, a[i].name) = 0 THEN a[i]
        ELSE LET s == b[StatIndex(b, a[i].name)]
             IN [name |-> a[i].name, g |-> a[i].g + s.g, w |-> a[i].w + s.w,
                 k |-> a[i].k + s.k, d |-> a[i].d + s.d, a |-> a[i].a + s.a,
                 b |-> a[i].b + s.b, builds |-> a[i].builds \o s.builds]]
        \o SelectSeq(b, LAMBDA s : StatIndex(a, s.name) = 0)

\* 1. the body of the first loop for one match: the player of the role, the
\* games, wins, k/d/a and the build signature
played_stats(m, role_filter, VALID_ITEMS) ==
    LET pi == RolePlayerIndex(m, role_filter)
    IN IF pi = 0 THEN <<>>
       ELSE LET x == m.participants[pi]
                sig == build_signature(x.items, VALID_ITEMS)
            IN <<[NewStat(x.champ) EXCEPT
                    !.g = @ + 1, !.k = @ + x.k, !.d = @ + x.d, !.a = @ + x.a,
                    !.w = IF x.win THEN @ + 1 ELSE @,
                    !.builds = IF sig = NoBuild THEN @ ELSE Append(@, sig)]>>

\* the first loop over the matches lo..hi
RECURSIVE GatherStats(_, _, _, _, _)
GatherStats(match_list, role_filter, VALID_ITEMS, lo, hi) ==
    IF lo > hi THEN <<>>
    ELSE IF lo = hi THEN played_stats(match_list[lo], role_filter, VALID_ITEMS)
    ELSE LET mid == (lo + hi) \div 2
         IN MergeStats(GatherStats(match_list, role_filter, VALID_ITEMS, lo, mid),
                       GatherStats(match_list, role_filter, VALID_ITEMS, mid + 1, hi))

\* 2. the inner loop of the second one, for the ban list of one match:
\* for bid in m["bans"]: if bid in champ_id_to_name: stats[bn]["b"] += 1
RECURSIVE ban_stats(_, _, _, _)
ban_stats(bans, champ_id_to_name, i, stats) ==
    IF i > Len(bans) THEN stats
    ELSE IF bans[i] \in DOMAIN champ_id_to_name
    THEN LET bn == champ_id_to_name[bans[i]]
             st == WithStat(stats, bn)
             n == StatIndex(st, bn)
         IN ban_stats(bans, champ_id_to_name, i + 1, [st EXCEPT ![n].b = @ + 1])
    ELSE ban_stats(bans, champ_id_to_name, i + 1, stats)

\* the second loop over the matches lo..hi
RECURSIVE CountBans(_, _, _, _)
CountBans(match_list, champ_id_to_name, lo, hi) ==
    IF lo > hi THEN <<>>
    ELSE IF lo = hi THEN ban_stats(match_list[lo].bans, champ_id_to_name, 1, <<>>)
    ELSE LET mid == (lo + hi) \div 2
         IN MergeStats(CountBans(match_list, champ_id_to_name, lo, mid),
                       CountBans(match_list, champ_id_to_name, mid + 1, hi))

\* round(x, n) of the exact quotient num / den, in units of the last decimal:
\* the nearest integer, a tie going to the even one.  (The float quotient can
\* fall to the other side of a tie; no subset below has a rate on a tie that
\* the float misses.)
RoundHalfEven(num, den) ==
    LET q == num \div den
        r == num % den
    IN IF 2 * r < den THEN q
       ELSE IF 2 * r > den THEN q + 1
       ELSE IF q % 2 = 0 THEN q ELSE q + 1

\* Counter(builds).most_common(1)[0][0]: the most frequent signature, the one
\* met first among equally frequent ones
most_common(builds) ==
    LET count(i) == Cardinality({j \in DOMAIN builds : builds[j] = builds[i]})
        best == CHOOSE i \in DOMAIN builds :
                    /\ \A j \in DOMAIN builds : count(j) <= count(i)
                    /\ \A j \in DOMAIN builds : count(j) = count(i) => i <= j
    IN builds[best]

\* the stats after the two loops of aggregate
aggregate_stats(match_list, role_filter, champ_id_to_name, VALID_ITEMS) ==
    MergeStats(GatherStats(match_list, role_filter, VALID_ITEMS, 1, Len(match_list)),
               CountBans(match_list, champ_id_to_name, 1, Len(match_list)))

\* 3. one result per champion that was played, or banned in more than 1.0%
summary_row(s, total_matches) ==
    [name |-> s.name,
     count |-> s.g,
     pick_rate |-> RoundHalfEven(s.g * 1000, total_matches),
     win_rate |-> IF s.g > 0 THEN RoundHalfEven(s.w * 1000, s.g) ELSE 0,
     ban_rate |-> RoundHalfEven(s.b * 1000, total_matches),
     kda |-> RoundHalfEven((s.k + s.a) * 100, IF s.d > 0 THEN s.d ELSE 1),
     top_items |-> IF s.builds = <<>> THEN <<>> ELSE most_common(s.builds)]

aggregate_results(stats, total_matches) ==
    LET rows == [i \in DOMAIN stats |-> summary_row(stats[i], total_matches)]
    IN SelectSeq(rows, LAMBDA x : x.count > 0 \/ x.ban_rate > 10)

\* sorted(results, key=pick_rate, reverse=True): stable, highest first
RECURSIVE InsertByPickRate(_, _)
InsertByPickRate(sorted, x) ==
    IF sorted = <<>> THEN <<x>>
    ELSE IF Head(sorted).pick_rate >= x.pick_rate
         THEN <<Head(sorted)>> \o InsertByPickRate(Tail(sorted), x)
         ELSE <<x>> \o sorted

RECURSIVE SortByPickRate(_)
SortByPickRate(rows) ==
    IF rows = <<>> THEN <<>>
    ELSE InsertByPickRate(SortByPickRate(SubSeq(rows, 1, Len(rows) - 1)), rows[Len(rows)])

\* the length of a role's list
TopN == 15

\* the first TopN results as the dict walk gives them, not sorted
aggregate_unsorted(match_list, role_filter, champ_id_to_name, VALID_ITEMS) ==
    IF Len(match_list) = 0 THEN <<>>
    ELSE Take(aggregate_results(aggregate_stats(match_list, role_filter,
                                                champ_id_to_name, VALID_ITEMS),
                                Len(match_list)), TopN)

aggregate(match_list, role_filter, champ_id_to_name, VALID_ITEMS) ==
    IF Len(match_list) = 0 THEN <<>>
    ELSE Take(SortByPickRate(
                aggregate_results(aggregate_stats(match_list, role_filter,
                                                  champ_id_to_name, VALID_ITEMS),
                                  Len(match_list))), TopN)

(***************************************************************************)
(* Two executions of PHASE 2, one after the other, over two contents of    *)
(* the collection that agree on euw1.                                      *)
(***************************************************************************)
\* the longest region of the small collections
MaxMatches == 2

Participant(id, role, win, items) ==
    [championId |-> id, championName |-> ChampName(id), teamPosition |-> role,
     win |-> win, kills |-> 2, deaths |-> 1, assists |-> 3, items |-> items,
     riotId |-> <<"player", id>>]

I_10_20 == <<10, 20, 0, 0, 0, 0>>
I_20_10_30 == <<20, 0, 10, 30, 0, 0>>

\* champion 1 TOP and champion 2 JUNGLE, champion 3 banned, one empty ban slot
mA == [gameVersion |-> V_14_2_1,
       teams |-> << <<3, NoBan>>, <<>> >>,
       participants |-> <<Participant(1, "TOP", TRUE, I_10_20),
                          Participant(2, "JUNGLE", FALSE, I_20_10_30)>>]

\* champion 3 TOP, champions 1 and 2 banned
mB == [gameVersion |-> V_14_2_1,
       teams |-> << <<1>>, <<2>> >>,
       participants |-> <<Participant(3, "TOP", FALSE, I_20_10_30)>>]

\* champion 1 TOP and champion 3 JUNGLE, nothing banned
mF == [gameVersion |-> V_14_2_1,
       teams |-> << <<>>, <<>> >>,
       participants |-> <<Participant(1, "TOP", TRUE, I_10_20),
                          Participant(3, "JUNGLE", TRUE, I_10_20)>>]

\* champion id alone in the TOP role, nothing banned
mT(id) == [gameVersion |-> V_14_2_1,
           teams |-> << <<>>, <<>> >>,
           participants |-> <<Participant(id, "TOP", TRUE, I_10_20)>>]

SmallRegions == UNION {[1..n -> {mA, mB}] : n \in 0..MaxMatches}

\* n matches of which the last one bans champion 3, whom nobody plays TOP
OneBanIn(n) == [i \in 1..n |-> IF i < n THEN mF ELSE mA]

\* twenty champions once each in the TOP role, the last five of them once more
TwentyChampions == [i \in 1..25 |-> mT(IF i <= 20 THEN i ELSE i - 5)]

LargeRegions == {OneBanIn(96), OneBanIn(100), TwentyChampions}

ChampIds == 1..20

\* the documents of two regions as the collection holds them
Stored(kr, euw1) ==
    [i \in DOMAIN kr |-> [region |-> "kr"] @@ kr[i]]
        \o [i \in DOMAIN euw1 |-> [region |-> "euw1"] @@ euw1[i]]

\* matches_col.find({"_region": region_code})
find(col, region_code) == SelectSeq(col, LAMBDA m : m.region = region_code)

NoRoles == [r \in SeqToSet(VALID_ROLES) |-> <<>>]

\* the locals of PHASE 2 when the region loop starts; stats and results are
\* what the last call of aggregate for a region and role held before it
\* sorted and returned
StartAgg(col, items) ==
    [pc |-> "load", ri |-> 1, roi |-> 1,
     matches_col |-> col,
     VALID_ITEMS |-> items,
     champ_id_to_name |-> <<>>,
     region_matches |-> <<>>,
     regions |-> <<>>,
     stats |-> [r \in SeqToSet(REGIONS) |-> NoRoles],
     results |-> [r \in SeqToSet(REGIONS) |-> NoRoles]]

InitAgg ==
    /\ run = [p \in Procs |-> InitRun]
    /\ matches_col = <<>>
    /\ ev = [p \in Procs |-> NoEvent]
    /\ world = <<>>
    /\ fn = NoCall
    /\ \E kr1, kr2 \in SmallRegions : \E euw1 \in SmallRegions \cup LargeRegions :
        \E items \in ItemFilters :
            /\ euw1 \in LargeRegions => kr1 = <<>> /\ kr2 = <<>>
            /\ agg = [x \in Procs |->
                        StartAgg(Stored(IF x = 1 THEN kr1 ELSE kr2, euw1), items)]

\* the second execution starts when the first one is over
MayStep(x) == x = 1 \/ agg[1].pc = "done"

\* the region loop up to the definition of aggregate
LoadRegion(x) ==
    LET s == agg[x]
        region_code == REGIONS[s.ri]
        cursor == find(s.matches_col, region_code)
    IN /\ MayStep(x)
       /\ s.pc = "load"
       /\ agg' = [agg EXCEPT ![x] =
                [s EXCEPT !.pc = "aggregate",
                          !.roi = 1,
                          !.regions = (region_code :> NoRoles) @@ @,
                          !.region_matches = [i \in DOMAIN cursor |-> summary_of(cursor[i])],
                          !.champ_id_to_name = learn_names(cursor, 1, Len(cursor)) @@ @]]
       /\ UNCHANGED <<run, matches_col, ev, world, fn>>

\* one turn of "for r in VALID_ROLES", and the step to the next region after
\* the last role
AggregateRole(x) ==
    LET s == agg[x]
        region_code == REGIONS[s.ri]
        r == VALID_ROLES[s.roi]
        st == aggregate_stats(s.region_matches, r, s.champ_id_to_name, s.VALID_ITEMS)
        s1 == [s EXCEPT !.regions[region_code][r] =
                            aggregate(s.region_matches, r, s.champ_id_to_name,
                                      s.VALID_ITEMS),
                        !.stats[region_code][r] =
                            IF Len(s.region_matches) = 0 THEN <<>> ELSE st,
                        !.results[region_code][r] =
                            IF Len(s.region_matches) = 0 THEN <<>>
                            ELSE aggregate_results(st, Len(s.region_matches))]
    IN /\ MayStep(x)
       /\ s.pc = "aggregate"
       /\ agg' = [agg EXCEPT ![x] =
                IF s.roi < Len(VALID_ROLES) THEN [s1 EXCEPT !.roi = @ + 1]
                ELSE IF s.ri < Len(REGIONS) THEN [s1 EXCEPT !.ri = @ + 1, !.pc = "load"]
                ELSE [s1 EXCEPT !.pc = "done"]]
       /\ UNCHANGED <<run, matches_col, ev, world, fn>>

NextAgg == \E x \in Procs : LoadRegion(x) \/ AggregateRole(x)

SpecAgg == InitAgg /\ [][NextAgg]_vars

(***************************************************************************)
(* Properties.                                                             *)
(***************************************************************************)
UniqueKeys ==
    \A i, j \in DOMAIN matches_col :
        i # j => /\ matches_col[i].matchId # matches_col[j].matchId
                 /\ <<matches_col[i].region, matches_col[i].matchId>> #
                    <<matches_col[j].region, matches_col[j].matchId>>

\* a stored identifier keeps its record for as long as it is stored
NoOverwrite ==
    \A i \in DOMAIN matches_col : \A j \in DOMAIN matches_col' :
        matches_col'[j].matchId = matches_col[i].matchId =>
            matches_col'[j] = matches_col[i]

\* C1: over any sequence of runs the stored matches have pairwise distinct
\* (region, matchId) keys, and no step inserts a stored identifier again or
\* changes its record: a re-ingestion attempt leaves the record as it was.
C1_InsertedAtMostOnce == []UniqueKeys /\ [][NoOverwrite]_vars

\* an insert of an identifier that is already stored was attempted and refused
C1_Witness ==
    \E p \in Procs : ev[p].insert = "dup" /\ matches_col # <<>>

C5_AbsentIsNotAnError ==
    \A p \in Procs : ev[p].resp = "404" => ev[p].log = "none"

\* where the run stands after the except clause of the scope has run
Contained ==
    \A p \in Procs :
        ev[p].resp = "fault" =>
            /\ ev[p].site \in PlayerSites =>
                /\ ev[p].log = "player"
                /\ IF ev[p].more
                   THEN /\ run[p].ri = ev[p].ri
                        /\ run[p].ei > ev[p].ei
                        /\ run[p].pc \in {"summoner", "matchlist"}
                   ELSE run[p].ri # ev[p].ri
            /\ ev[p].site \in LadderSites => ev[p].log = "region"
            /\ ev[p].site = "account" => ev[p].log = "warning"
            /\ run[p].ri # ev[p].ri =>
                IF ev[p].ri < Len(REGIONS)
                THEN run[p].ri = ev[p].ri + 1 /\ run[p].pc = "challenger"
                ELSE run[p].pc = "analyst"

\* C6: an upstream fault in one player's scan leaves the remaining players of
\* the region to be scanned, a fault at region level leaves the following
\* regions to be scanned, and (429s being finitely many) every run that
\* starts reaches the analyst phase and writes the artifact.
C6_FaultsContained ==
    /\ []Contained
    /\ \A p \in Procs :
        (run[p].pc = "cleanup") ~> (run[p].pc = "done" /\ run[p].artifact.written)

\* a player's scan has failed on a fault and the next player is being scanned
C6_Witness ==
    \E p \in Procs :
        /\ ev[p].resp = "fault" /\ ev[p].site \in PlayerSites /\ ev[p].more
        /\ run[p].pc = "matchlist"

\* C7: right after the purge with current patch P every stored match has
\* short patch P, and the analyst phase of that run reads only such matches.
C7_PurgeLeavesCurrentPatchOnly ==
    \A p \in Procs :
        /\ (ev[p].site = "cleanup" /\ ev[p].feed) =>
            StoredPatches(matches_col) \subseteq {run[p].target_patch}
        /\ (run[p].pc = "done" /\ Truthy(run[p].latest_ver)) =>
            run[p].artifact.patches \subseteq {run[p].target_patch}

\* C8: with the version feed unreachable, the patch the run reports is the
\* highest (major, minor) over the stored matches, and the default only for
\* an empty collection.
C8_FallbackIsHighestStoredPatch ==
    \A p \in Procs :
        (run[p].pc = "done" /\ ~Truthy(run[p].latest_ver)) =>
            run[p].artifact.current_patch \in
                get_latest_patch(run[p].artifact.patches)

\* C9: without the feed, a detail that the upstream returns for a new
\* identifier is stored and the player's scan does not fail.
C9_FeedFaultDoesNotFailScan ==
    \A p \in Procs :
        (ev[p].site = "detail" /\ ev[p].resp = "ok" /\ ~ev[p].feed) =>
            ev[p].log = "none" /\ ev[p].insert # "none"

\* C10: a player's scan in which the upstream raised no fault has asked for
\* the detail of exactly the listed identifiers that the existence lookup
\* did not find, and no scan asks for the detail of one it found.
C10_DetailFetchedForDifference ==
    \A p \in Procs :
        /\ run[p].fetched \cap run[p].existing_ids = {}
        /\ (ev[p].scan_end /\ ev[p].site \in {"matchlist", "detail"}
                /\ ev[p].resp # "fault") =>
            ev[p].fetched = SeqToSet(ev[p].listed) \ ev[p].existing


\* C2: while a run scans a player for the second time in a row (same list,
\* same details, same patch), no step changes the collection or counts a
\* new match.
C2_SecondIngestionChangesNothing ==
    [][\A p \in Procs :
        (run[p].pc \in PlayerSites /\ run[p].ei = 2
            /\ run[p].entries[1] = run[p].entries[2]) =>
            /\ matches_col' = matches_col
            /\ run'[p].new = run[p].new]_vars

\* the second scan has ended after the first one stored a match
C2_Witness ==
    \E p \in Procs :
        /\ ev[p].scan_end /\ ev[p].ei = 2 /\ ev[p].site = "detail"
        /\ run[p].new >= 1

\* C3: when two runs race on an identifier the collection still holds it
\* once, and the insert that loses raises nothing to the player scope, is not
\* counted as new, and is followed by the next identifier of the list (or by
\* the normal end of the scan after the last one).
C3_LostInsertIsSuccess ==
    /\ UniqueKeys
    /\ \A p \in Procs :
        ev[p].insert = "dup" =>
            /\ ev[p].log = "none"
            /\ run[p].new = ev[p].new
            /\ IF ev[p].mi < ev[p].nm
               THEN /\ run[p].pc = "detail" /\ run[p].mi = ev[p].mi + 1
                    /\ run[p].ei = ev[p].ei /\ run[p].ri = ev[p].ri
               ELSE ev[p].scan_end

\* both runs listed m2 and m1, both found neither stored, one has inserted
\* m2 and the other's insert of m2 was refused; it now asks for m1
C3_Witness ==
    \E p, q \in Procs :
        /\ p # q
        /\ ev[p].insert = "dup" /\ run[p].match_ids = <<"m2", "m1">>
        /\ run[p].existing_ids = {} /\ run[p].pc = "detail" /\ run[p].mi = 2
        /\ run[q].match_ids = <<"m2", "m1">> /\ run[q].existing_ids = {}
        /\ run[q].new >= 1

NoDup(q) == Cardinality(SeqToSet(q)) = Len(q)

\* C11: a tier of the pool chain is entered only while the identities that
\* the earlier tiers collected are fewer than PLAYER_COUNT: the second and
\* third bracket after the brackets before them, the curated handles after
\* the brackets and the stored matches together.
C11_TierOnlyWhenShort ==
    \A p \in Procs :
        LET s == run[p] IN
        /\ s.pc \in {"grandmaster", "master"} => Len(s.entries) < PLAYER_COUNT
        /\ (s.pc = "account" /\ s.ni = 1) =>
                Len(s.entries) + Len(s.fallback_puuids) < PLAYER_COUNT

\* C19: within one run the detail of an identifier is asked for at most
\* once (429 retries aside): a run never waits on the detail of an
\* identifier that it has already been answered for in an earlier scan.
C19_DetailRequestedOncePerRun ==
    \A p \in Procs :
        LET s == run[p] IN
        (s.pc = "detail" /\ NoDup(s.match_ids)) =>
            <<Region(s), s.new_matches[s.mi]>> \notin s.asked

\* C19 as amended: a run asks again, for a later player, only for an
\* identifier that the player's existence lookup did not find and that the
\* earlier request left unstored; what the run has stored it does not ask for
\* again.
C19_RepeatOnlyIfNotStored ==
    \A p \in Procs :
        LET s == run[p] IN
        s.pc = "detail" =>
            /\ s.new_matches[s.mi] \notin s.existing_ids
            /\ (NoDup(s.match_ids) /\ <<Region(s), s.new_matches[s.mi]>> \in s.asked) =>
                    s.new_matches[s.mi] \notin StoredIds(matches_col)

\* a later player lists a stored identifier and one whose earlier request
\* stored nothing: the first is skipped, the second is asked for again
C19_Witness ==
    \E p \in Procs :
        LET s == run[p] IN
        /\ s.pc = "detail" /\ NoDup(s.match_ids)
        /\ <<Region(s), s.new_matches[s.mi]>> \in s.asked
        /\ s.existing_ids # {}
        /\ \A m \in s.existing_ids : <<Region(s), m>> \in s.asked

\* C20: the pool that the player loop scans has at most PLAYER_COUNT entries
\* and the stored-matches and curated-handle tiers add no identity that the
\* pool already holds.
C20_PoolHasNoIdentityTwice ==
    \A p \in Procs :
        LET s == run[p] IN
        s.pc \in PlayerSites =>
            /\ Len(s.entries) <= PLAYER_COUNT
            /\ \A i, j \in DOMAIN s.entries :
                (i # j /\ s.entries[i].puuid # ""
                    /\ s.entries[i].leaguePoints = NoLP) =>
                    s.entries[j].puuid # s.entries[i].puuid

\* positions of the dots of a string
Dots(s) == {i \in DOMAIN s : s[i] = "."}

\* the text before the second dot
FirstTwo(s) ==
    IF Cardinality(Dots(s)) = 1 THEN s
    ELSE LET d1 == CHOOSE i \in Dots(s) : \A j \in Dots(s) : i <= j
             d2 == CHOOSE i \in Dots(s) \ {d1} : \A j \in Dots(s) \ {d1} : i <= j
         IN SubSeq(s, 1, d2 - 1)

\* C17: get_short_version returns the first two dot-separated components
\* joined by a dot, and the sentinel "0.0" for a missing value, an empty
\* string and a string with fewer than two components; it never raises.
C17_ShortVersionOrSentinel ==
    (fn.f \in {"get_short_version", "get_short_version_file"} /\ fn.returned) =>
        IF fn.arg = NoneStr \/ Dots(fn.arg) = {}
        THEN fn.ret = P_0_0
        ELSE fn.ret = FirstTwo(fn.arg)

\* the (major, minor) that each patch of PatchInputs stands for
PatchNumber(v) ==
    CASE v = P_14_1 -> <<14, 1>>
      [] v = P_14_2 -> <<14, 2>>
      [] v = P_14_9 -> <<14, 9>>
      [] v = P_14_10 -> <<14, 10>>
      [] v = P_13_24 -> <<13, 24>>
      [] OTHER -> <<0, 0>>

\* C16: get_latest_patch returns a stored patch whose (major, minor), read
\* as integers, no stored patch exceeds ("14.2" and "14.9" lose to "14.10"),
\* an unparseable patch counting as (0, 0); from an empty store, "14.1".
C16_LatestPatchIsNumericMax ==
    (fn.f = "get_latest_patch" /\ fn.returned) =>
        IF fn.arg = {} THEN fn.ret = P_14_1
        ELSE /\ fn.ret \in fn.arg
             /\ \A w \in fn.arg :
                    \/ PatchNumber(w)[1] < PatchNumber(fn.ret)[1]
                    \/ /\ PatchNumber(w)[1] = PatchNumber(fn.ret)[1]
                       /\ PatchNumber(w)[2] <= PatchNumber(fn.ret)[2]

\* "14.10" was returned from a store that also holds "14.2", "14.9" and an
\* unparseable patch
C16_Witness ==
    /\ fn.f = "get_latest_patch" /\ fn.returned
    /\ {P_14_2, P_14_9, P_14_10, P_junk} \subseteq fn.arg
    /\ fn.ret = P_14_10

\* C15: two participants whose item slots hold the same items in another
\* order get the same build signature.
C15_SameItemsSameSignature ==
    (fn.f = "build_signature" /\ fn.returned) => fn.ret[1] = fn.ret[2]

\* the valid items of a slot list, counted with repetition
NumValid(items, VALID_ITEMS) ==
    Cardinality({i \in DOMAIN items :
        items[i] # 0 /\ (VALID_ITEMS = NoFilter \/ items[i] \in VALID_ITEMS)})

\* C15 as amended: two participants whose slots hold the same items in
\* another order, at most three of them valid, get the same build signature.
C15_SameThreeItemsSameSignature ==
    (fn.f = "build_signature" /\ fn.returned
        /\ NumValid(fn.arg[1], fn.arg[3]) <= 3) => fn.ret[1] = fn.ret[2]

\* [10, 20, 30] and [30, 10, 20] around an empty slot: one signature
C15_Witness ==
    /\ fn.f = "build_signature" /\ fn.returned
    /\ valid_player_items(fn.arg[1], fn.arg[3]) = <<10, 20, 30>>
    /\ valid_player_items(fn.arg[2], fn.arg[3]) = <<30, 10, 20>>
    /\ fn.ret = <<(<<10, 20, 30>>), (<<10, 20, 30>>)>>


(***************************************************************************)
(* PHASE 2.                                                                *)
(***************************************************************************)
\* how often champion id stands in the ban lists of the stored matches docs
BanOccurrences(docs, id) ==
    Cardinality({<<i, t, k>> \in (DOMAIN docs) \X (1..2) \X (1..5) :
                    /\ t \in DOMAIN docs[i].teams
                    /\ k \in DOMAIN docs[i].teams[t]
                    /\ docs[i].teams[t][k] = id})

Credited(stats, id) ==
    IF StatIndex(stats, ChampName(id)) = 0 THEN 0
    ELSE stats[StatIndex(stats, ChampName(id))].b

Listed(rows, name) == \E i \in DOMAIN rows : rows[i].name = name

RegionCodes == SeqToSet(REGIONS)
Roles == SeqToSet(VALID_ROLES)

\* C12: once an execution is over, in every region and role a champion of the
\* tally is among the results before truncation if and only if it has at
\* least one game in the role, or its bans are strictly more than 1.0% of the
\* region's matches.
C12_IncludedIffPlayedOrBannedAboveOnePercent ==
    \A x \in Procs : agg[x].pc = "done" =>
        \A rc \in RegionCodes : \A r \in Roles :
            LET stats == agg[x].stats[rc][r]
                total == Len(find(agg[x].matches_col, rc))
            IN \A n \in DOMAIN stats :
                Listed(agg[x].results[rc][r], stats[n].name)
                    <=> (stats[n].g >= 1 \/ stats[n].b * 100 > total)

\* C13: once an execution is over, in every region and role the ban counter
\* of every champion equals the number of times the champion stands in the
\* ban lists of the region's matches, whether or not the champion was played.
C13_BanCountIsOccurrencesInBanLists ==
    \A x \in Procs : agg[x].pc = "done" =>
        \A rc \in RegionCodes : \A r \in Roles : \A id \in ChampIds :
            Credited(agg[x].stats[rc][r], id)
                = BanOccurrences(find(agg[x].matches_col, rc), id)

\* C14: when both executions are over, a region that holds the same matches
\* in both has the same list for every role in both, whatever the other
\* region holds.
C14_SameSubsetSameSummaries ==
    (\A x \in Procs : agg[x].pc = "done") =>
        \A rc \in RegionCodes :
            find(agg[1].matches_col, rc) = find(agg[2].matches_col, rc) =>
                \A r \in Roles : agg[1].regions[rc][r] = agg[2].regions[rc][r]

\* C18: once an execution is over, every role's list is sorted by pick rate,
\* highest first, holds min(15, number of qualifying champions) of the
\* qualifying champions, and no qualifying champion left out has a higher
\* pick rate than one in the list.
C18_TopFifteenByPickRate ==
    \A x \in Procs : agg[x].pc = "done" =>
        \A rc \in RegionCodes : \A r \in Roles :
            LET out == agg[x].regions[rc][r]
                qualifying == agg[x].results[rc][r]
            IN /\ Len(out) = Min(15, Len(qualifying))
               /\ \A i, j \in DOMAIN out : i < j => out[i].pick_rate >= out[j].pick_rate
               /\ \A i, j \in DOMAIN out : i # j => out[i].name # out[j].name
               /\ \A i \in DOMAIN out : \E n \in DOMAIN qualifying : qualifying[n] = out[i]
               /\ \A n \in DOMAIN qualifying :
                    ~Listed(out, qualifying[n].name) =>
                        \A i \in DOMAIN out : qualifying[n].pick_rate <= out[i].pick_rate

\* twenty champions qualify in one role; fifteen are returned, and the first
\* of them is not the first one the tally met
C18_Witness ==
    \E x \in Procs :
        /\ agg[x].pc = "done"
        /\ \E rc \in RegionCodes : \E r \in Roles :
            /\ Len(agg[x].results[rc][r]) = 20
            /\ Len(agg[x].regions[rc][r]) = 15
            /\ agg[x].regions[rc][r][1].pick_rate > agg[x].results[rc][r][1].pick_rate
====
